---- MODULE Spec2Model ----
(***************************************************************************)
(* express-jobly: the partial-update SQL builder (helpers/sql.js), the     *)
(* Company and Job models (models/company.js, models/job.js) and the jobs  *)
(* routes (routes/jobs.js), over a relational store.                       *)
(*                                                                         *)
(* Encoding of values.  A JS object with ordered keys (the data of an      *)
(* update, a request body) is a sequence of entries [k |-> key, v |->      *)
(* value] with distinct keys.  An object read by key (a filter, a          *)
(* jsToSql table) is a function whose DOMAIN is the set of keys present;   *)
(* a key that is not in the DOMAIN reads as undefined.  Text that is       *)
(* searched (company name, job title) is a sequence of characters.  SQL    *)
(* NULL is NullInt in a numeric column and NullStr in a text column.       *)
(***************************************************************************)
EXTENDS Integers, Sequences, FiniteSets, TLC

VARIABLES
    companies,   \* table companies: a set of rows
    jobs,        \* table jobs: a set of rows
    nextId,      \* the serial sequence behind jobs.id
    onDelete,    \* referential action of jobs.company_handle on delete
    last,        \* the last call that returned: operation, arguments, outcome
    inflight     \* calls suspended between two storage round trips

vars == <<companies, jobs, nextId, onDelete, last, inflight>>

(***************************************************************************)
(* Bounds of the model.                                                    *)
(***************************************************************************)
\* the most fields a partial update carries
MaxFields == 2
\* the serial sequence of jobs.id stops here
MaxJobId == 1

NullInt == -1
\* NaN, the number a text that is no numeral converts to
NaN == -2
NullStr == "NULL"

(***************************************************************************)
(* helpers/sql.js                                                          *)
(***************************************************************************)

\* `jsToSql[colName] || colName`: an absent entry reads undefined and an
\* empty string is falsy, so both fall through to the field's own name.
ColumnOf(jsToSql, colName) ==
    IF colName \in DOMAIN jsToSql /\ jsToSql[colName] # ""
    THEN jsToSql[colName]
    ELSE colName

\* a faulty variant of SetCol: the placeholder is the 0-based index of the key
SetColZeroBased(jsToSql, colName, idx) ==
    [col |-> ColumnOf(jsToSql, colName), pos |-> idx]

\* one element of cols, `"${jsToSql[colName] || colName}"=$${idx + 1}`,
\* kept as the column it assigns and the placeholder it reads; idx is the
\* 0-based index Array.map passes.
SetCol(jsToSql, colName, idx) ==
    [col |-> ColumnOf(jsToSql, colName), pos |-> idx + 1]

\* Object.keys(dataToUpdate)
ObjectKeys(obj) == [i \in 1..Len(obj) |-> obj[i].k]

\* Object.values(dataToUpdate)
ObjectValues(obj) == [i \in 1..Len(obj) |-> obj[i].v]

\* a faulty variant of SqlForPartialUpdate: the empty mapping is not rejected
SqlForPartialUpdateNoGuard(dataToUpdate, jsToSql) ==
    LET keys == ObjectKeys(dataToUpdate)
    IN  [err     |-> "none",
         setCols |-> [i \in 1..Len(keys) |-> SetCol(jsToSql, keys[i], i - 1)],
         values  |-> ObjectValues(dataToUpdate)]

\* sqlForPartialUpdate(dataToUpdate, jsToSql).  setCols is the list cols in
\* the order of cols.join(', ').
SqlForPartialUpdate(dataToUpdate, jsToSql) ==
    LET keys == ObjectKeys(dataToUpdate)
    IN  IF Len(keys) = 0
        THEN [err |-> "BadRequest", setCols |-> <<>>, values |-> <<>>]
        ELSE [err     |-> "none",
              setCols |-> [i \in 1..Len(keys) |-> SetCol(jsToSql, keys[i], i - 1)],
              values  |-> ObjectValues(dataToUpdate)]

(***************************************************************************)
(* Inputs.                                                                 *)
(***************************************************************************)
Handles == {"c1", "c2"}
\* a handle no company is ever created with
NoSuchHandle == "nope"

CompanyNames == {<<"C", "1">>, <<"c", "2">>}
JobTitles == {<<"t", "1">>, <<"T", "2">>}

\* the entries the helper is called with
SqlEntries ==
    {[k |-> "name", v |-> n] : n \in CompanyNames}
    \cup {[k |-> "numEmployees", v |-> n] : n \in {1, 2}}
    \cup {[k |-> "logoUrl", v |-> "http://new.img"]}
    \cup {[k |-> "handle", v |-> h] : h \in Handles}

\* the entries an update of a company is called with
CompanyEntries ==
    {[k |-> "name", v |-> <<"c", "2">>],
     [k |-> "numEmployees", v |-> 2],
     [k |-> "handle", v |-> "c2"]}

\* the entries an update of a job is called with
JobEntries ==
    {[k |-> "title", v |-> <<"T", "2">>],
     [k |-> "salary", v |-> 200],
     [k |-> "id", v |-> 2],
     [k |-> "companyHandle", v |-> "c2"]}

\* the records Company.create is called with
NewCompanies ==
    {[handle |-> "c1", name |-> <<"C", "1">>, description |-> "Desc1",
      numEmployees |-> 1, logoUrl |-> "http://c1.img"],
     [handle |-> "c2", name |-> <<"C", "1">>, description |-> "Desc2",
      numEmployees |-> NullInt, logoUrl |-> NullStr]}

\* the records Job.create is called with
NewJobs ==
    {[title |-> <<"t", "1">>, salary |-> 100, equity |-> "0.1",
      companyHandle |-> h] : h \in Handles \cup {NoSuchHandle}}
    \cup {[title |-> <<"t", "1">>, salary |-> NullInt, equity |-> NullStr,
           companyHandle |-> "c1"]}

\* the identifiers the calls are made with
CallHandles == Handles \cup {NoSuchHandle}
CallIds == 0..(MaxJobId + 1)

\* the objects of at most n entries of E, keys distinct, in every key order
RECURSIVE Objects(_, _)
Objects(E, n) ==
    IF n = 0 THEN {<<>>}
    ELSE LET shorter == Objects(E, n - 1)
         IN  shorter \cup
             {Append(o, e) : <<o, e>> \in
                 {p \in shorter \X E :
                     /\ Len(p[1]) = n - 1
                     /\ \A i \in 1..Len(p[1]) : p[1][i].k # p[2].k}}

\* translation tables: every table over a subset of the keys, an entry
\* being a column name or the empty string
JsToSqlTables ==
    UNION {[S -> {"", "col"}] : S \in SUBSET {"name", "numEmployees"}}
    \cup {[numEmployees |-> "num_employees", logoUrl |-> "logo_url"]}

NoCall == [op |-> "none", id |-> 0, data |-> <<>>, aux |-> <<>>,
           outcome |-> "none", nq |-> 0, res |-> <<>>]

(***************************************************************************)
(* The helper on its own: the arguments are drawn, then the call is made.  *)
(***************************************************************************)
InitSql ==
    /\ companies = {}
    /\ jobs = {}
    /\ nextId = 1
    /\ onDelete = "NO ACTION"
    /\ inflight = <<>>
    /\ \E dataToUpdate \in Objects(SqlEntries, MaxFields),
          jsToSql \in JsToSqlTables :
            last = [op |-> "args", id |-> 0, data |-> dataToUpdate,
                    aux |-> jsToSql, outcome |-> "none", nq |-> 0,
                    res |-> <<>>]

CallSqlForPartialUpdate ==
    /\ last.op = "args"
    /\ LET r == SqlForPartialUpdate(last.data, last.aux)
       IN  last' = [last EXCEPT !.op = "sqlForPartialUpdate",
                                !.outcome = IF r.err = "none" THEN "ok" ELSE r.err,
                                !.res = r]
    /\ UNCHANGED <<companies, jobs, nextId, onDelete, inflight>>

NextSql == CallSqlForPartialUpdate

SpecSql == InitSql /\ [][NextSql]_vars

\* C1 as stated: one fragment per field, in key order, the i-th reading $i
\* and assigning jsToSql[field] whenever the table has an entry for field,
\* the field's own name otherwise; values[i] is the field's value.
C1_AsStated ==
    (last.op = "sqlForPartialUpdate" /\ Len(last.data) > 0) =>
        /\ last.res.err = "none"
        /\ Len(last.res.setCols) = Len(last.data)
        /\ Len(last.res.values) = Len(last.data)
        /\ \A i \in 1..Len(last.data) :
            /\ last.res.setCols[i].pos = i
            /\ last.res.values[i] = last.data[i].v
            /\ last.res.setCols[i].col =
                 IF last.data[i].k \in DOMAIN last.aux
                 THEN last.aux[last.data[i].k]
                 ELSE last.data[i].k

\* C1 amended: as C1, the column being jsToSql[field] when the table has a
\* non-empty entry for field, and the field's own name when the entry is
\* absent or the empty string.
C1_Fragments ==
    (last.op = "sqlForPartialUpdate" /\ Len(last.data) > 0) =>
        /\ last.res.err = "none"
        /\ Len(last.res.setCols) = Len(last.data)
        /\ Len(last.res.values) = Len(last.data)
        /\ \A i \in 1..Len(last.data) :
            /\ last.res.setCols[i].pos = i
            /\ last.res.values[i] = last.data[i].v
            /\ \/ /\ last.data[i].k \in DOMAIN last.aux
                  /\ last.aux[last.data[i].k] # ""
                  /\ last.res.setCols[i].col = last.aux[last.data[i].k]
               \/ /\ last.data[i].k \in DOMAIN last.aux
                  /\ last.aux[last.data[i].k] = ""
                  /\ last.res.setCols[i].col = last.data[i].k
               \/ /\ last.data[i].k \notin DOMAIN last.aux
                  /\ last.res.setCols[i].col = last.data[i].k

\* C1 witness: two fields, the first translated, the second not
C1_Witness ==
    /\ last.op = "sqlForPartialUpdate"
    /\ Len(last.data) = 2
    /\ last.data[1].k = "numEmployees"
    /\ last.data[2].k = "name"
    /\ last.aux = [numEmployees |-> "num_employees", logoUrl |-> "logo_url"]
    /\ last.res.setCols = <<[col |-> "num_employees", pos |-> 1],
                            [col |-> "name", pos |-> 2]>>
    /\ last.res.values = <<last.data[1].v, last.data[2].v>>

(***************************************************************************)
(* The store.  A statement is run against the tables as a whole and        *)
(* answers [err, rows, companies, jobs, nextId]: the error it raised (or   *)
(* "none"), the rows it returns, and the tables after it.  handle is the   *)
(* primary key of companies, id (a serial) of jobs, and company_handle of  *)
(* jobs references companies.                                              *)
(***************************************************************************)
CompanyColumns == {"handle", "name", "description", "num_employees", "logo_url"}
JobColumns == {"id", "title", "salary", "equity", "company_handle"}

DbOut(err, rows, cs, js, nid) ==
    [err |-> err, rows |-> rows, companies |-> cs, jobs |-> js, nextId |-> nid]

\* the rows of a set that holds at most one
RowsOf(S) == IF S = {} THEN <<>> ELSE <<CHOOSE r \in S : TRUE>>

\* ORDER BY id
RECURSIVE SortById(_)
SortById(S) ==
    IF S = {} THEN <<>>
    ELSE LET m == CHOOSE r \in S : \A q \in S : r.id <= q.id
         IN  <<m>> \o SortById(S \ {m})

\* SELECT ... FROM companies WHERE handle = $1
DbSelectCompany(params, cs, js, nid) ==
    DbOut("none", RowsOf({r \in cs : r.handle = params[1]}), cs, js, nid)

\* INSERT INTO companies (handle, name, description, num_employees,
\* logo_url) VALUES ($1, $2, $3, $4, $5) RETURNING ...
DbInsertCompany(params, cs, js, nid) ==
    LET row == [handle |-> params[1], name |-> params[2],
                description |-> params[3], num_employees |-> params[4],
                logo_url |-> params[5]]
    IN  IF \E r \in cs : r.handle = row.handle
        THEN DbOut("unique_violation", <<>>, cs, js, nid)
        ELSE DbOut("none", <<row>>, cs \cup {row}, js, nid)

\* SELECT id, title, salary, equity FROM jobs WHERE company_handle = $1
\* ORDER BY id
DbSelectJobsOfCompany(params, cs, js, nid) ==
    LET rows == SortById({j \in js : j.company_handle = params[1]})
    IN  DbOut("none",
              [i \in 1..Len(rows) |->
                  [id |-> rows[i].id, title |-> rows[i].title,
                   salary |-> rows[i].salary, equity |-> rows[i].equity]],
              cs, js, nid)

\* the row after SET: a column named by a fragment takes the parameter the
\* fragment reads, every other column keeps its value
Assign(row, setCols, params) ==
    [c \in DOMAIN row |->
        IF \E i \in DOMAIN setCols : setCols[i].col = c
        THEN params[setCols[CHOOSE i \in DOMAIN setCols : setCols[i].col = c].pos]
        ELSE row[c]]

\* the statement names only columns of the table and only parameters that
\* are bound
WellFormedUpdate(columns, setCols, wherePos, params) ==
    /\ \A i \in DOMAIN setCols : setCols[i].col \in columns
    /\ \A i \in DOMAIN setCols : setCols[i].pos \in DOMAIN params
    /\ wherePos \in DOMAIN params

\* UPDATE companies SET <setCols> WHERE handle = $<wherePos> RETURNING ...
DbUpdateCompany(setCols, wherePos, params, cs, js, nid) ==
    IF ~WellFormedUpdate(CompanyColumns, setCols, wherePos, params)
    THEN DbOut("statement_error", <<>>, cs, js, nid)
    ELSE LET hit == {r \in cs : r.handle = params[wherePos]}
         IN  IF hit = {} THEN DbOut("none", <<>>, cs, js, nid)
             ELSE LET old == CHOOSE r \in hit : TRUE
                      new == Assign(old, setCols, params)
                  IN  IF \E r \in cs \ {old} : r.handle = new.handle
                      THEN DbOut("unique_violation", <<>>, cs, js, nid)
                      ELSE IF /\ new.handle # old.handle
                              /\ \E j \in js : j.company_handle = old.handle
                      THEN DbOut("foreign_key_violation", <<>>, cs, js, nid)
                      ELSE DbOut("none", <<new>>, (cs \ {old}) \cup {new}, js, nid)

\* DELETE FROM companies WHERE handle = $1 RETURNING handle
DbDeleteCompany(params, cs, js, nid, action) ==
    LET hit == {r \in cs : r.handle = params[1]}
        owned == {j \in js : j.company_handle = params[1]}
    IN  IF hit = {} THEN DbOut("none", <<>>, cs, js, nid)
        ELSE IF owned # {} /\ action = "NO ACTION"
        THEN DbOut("foreign_key_violation", <<>>, cs, js, nid)
        ELSE DbOut("none", RowsOf({[handle |-> r.handle] : r \in hit}),
                   cs \ hit, js \ owned, nid)

\* equity is a NUMERIC column (it is compared with 0 in Job.findAll and read
\* back as text): a numeral is stored as a number and read back in the
\* store's notation, which writes the 0 before the point
NumericText(e) == IF e = ".5" THEN "0.5" ELSE e

\* a faulty variant of DbInsertJob: company_handle references nothing
DbInsertJobNoForeignKey(params, cs, js, nid) ==
    LET row == [id |-> nid, title |-> params[1], salary |-> params[2],
                equity |-> NumericText(params[3]), company_handle |-> params[4]]
    IN  IF \E j \in js : j.id = row.id
        THEN DbOut("unique_violation", <<>>, cs, js, nid + 1)
        ELSE DbOut("none", <<row>>, cs, js \cup {row}, nid + 1)

\* INSERT INTO jobs (title, salary, equity, company_handle) VALUES ($1, $2,
\* $3, $4) RETURNING ...; the serial is drawn before the constraints are
\* checked and is not given back when the insert fails
DbInsertJob(params, cs, js, nid) ==
    LET row == [id |-> nid, title |-> params[1], salary |-> params[2],
                equity |-> NumericText(params[3]), company_handle |-> params[4]]
    IN  IF \E j \in js : j.id = row.id
        THEN DbOut("unique_violation", <<>>, cs, js, nid + 1)
        ELSE IF ~\E c \in cs : c.handle = row.company_handle
        THEN DbOut("foreign_key_violation", <<>>, cs, js, nid + 1)
        ELSE DbOut("none", <<row>>, cs, js \cup {row}, nid + 1)

\* SELECT id, title, salary, equity, company_handle FROM jobs WHERE id = $1
DbSelectJob(params, cs, js, nid) ==
    DbOut("none", RowsOf({j \in js : j.id = params[1]}), cs, js, nid)

\* UPDATE jobs SET <setCols> WHERE id = $<wherePos> RETURNING ...
DbUpdateJob(setCols, wherePos, params, cs, js, nid) ==
    IF ~WellFormedUpdate(JobColumns, setCols, wherePos, params)
    THEN DbOut("statement_error", <<>>, cs, js, nid)
    ELSE LET hit == {j \in js : j.id = params[wherePos]}
         IN  IF hit = {} THEN DbOut("none", <<>>, cs, js, nid)
             ELSE LET old == CHOOSE j \in hit : TRUE
                      set == Assign(old, setCols, params)
                      new == [set EXCEPT !.equity = NumericText(@)]
                  IN  IF \E j \in js \ {old} : j.id = new.id
                      THEN DbOut("unique_violation", <<>>, cs, js, nid)
                      ELSE IF ~\E c \in cs : c.handle = new.company_handle
                      THEN DbOut("foreign_key_violation", <<>>, cs, js, nid)
                      ELSE DbOut("none", <<new>>, cs, (js \ {old}) \cup {new}, nid)

\* DELETE FROM jobs WHERE id = $1 RETURNING id
DbDeleteJob(params, cs, js, nid) ==
    LET hit == {j \in js : j.id = params[1]}
    IN  DbOut("none", RowsOf({[id |-> j.id] : j \in hit}), cs, js \ hit, nid)

(***************************************************************************)
(* models/company.js and models/job.js.  A call answers [outcome, res, nq, *)
(* companies, jobs, nextId]: "ok" or the error it threw ("BadRequest",     *)
(* "NotFound", or "DbError" for an error of db.query, which is not         *)
(* caught), what it returned, the number of db.query calls it made, and    *)
(* the tables after it.                                                    *)
(***************************************************************************)
Ret(outcome, res, nq, db) ==
    [outcome |-> outcome, res |-> res, nq |-> nq, companies |-> db.companies,
     jobs |-> db.jobs, nextId |-> db.nextId]

\* RETURNING handle, name, description, num_employees AS "numEmployees",
\* logo_url AS "logoUrl"
CompanyJs(row) ==
    [handle |-> row.handle, name |-> row.name, description |-> row.description,
     numEmployees |-> row.num_employees, logoUrl |-> row.logo_url]

\* RETURNING id, title, salary, equity, company_handle AS "companyHandle"
JobJs(row) ==
    [id |-> row.id, title |-> row.title, salary |-> row.salary,
     equity |-> row.equity, companyHandle |-> row.company_handle]

\* the second argument of sqlForPartialUpdate in Company.update
CompanyJsToSql == [numEmployees |-> "num_employees", logoUrl |-> "logo_url"]

\* the second argument of sqlForPartialUpdate in Job.update: {}
JobJsToSql == <<>>

\* Company.create, first round trip: the duplicate check
CompanyCreateLookup(c, cs, js, nid) == DbSelectCompany(<<c.handle>>, cs, js, nid)

\* Company.create, second round trip: the insert
CompanyCreateInsert(c, cs, js, nid) ==
    LET result == DbInsertCompany(
                      <<c.handle, c.name, c.description, c.numEmployees, c.logoUrl>>,
                      cs, js, nid)
    IN  IF result.err # "none" THEN Ret("DbError", result.err, 2, result)
        ELSE Ret("ok", CompanyJs(result.rows[1]), 2, result)

\* a faulty variant of IsDuplicate: the duplicate check never fires
IsDuplicateNever(duplicateCheck) == FALSE

\* `duplicateCheck.rows[0]` is truthy
IsDuplicate(duplicateCheck) == duplicateCheck.rows # <<>>

\* Company.create({handle, name, description, numEmployees, logoUrl})
CompanyCreate(c, cs, js, nid) ==
    LET duplicateCheck == CompanyCreateLookup(c, cs, js, nid)
    IN  IF IsDuplicate(duplicateCheck)
        THEN Ret("BadRequest", "Duplicate company", 1, duplicateCheck)
        ELSE CompanyCreateInsert(c, cs, js, nid)

\* Company.get, second round trip: the jobs of the company
CompanyGetJobs(company, cs, js, nid) ==
    LET jobRes == DbSelectJobsOfCompany(<<company.handle>>, cs, js, nid)
    IN  Ret("ok",
            [handle |-> company.handle, name |-> company.name,
             description |-> company.description,
             numEmployees |-> company.numEmployees,
             logoUrl |-> company.logoUrl, jobs |-> jobRes.rows],
            2, jobRes)

\* a faulty variant of CompanyGet: the jobs are queried before the company
\* is looked at
CompanyGetEager(handle, cs, js, nid) ==
    LET companyRes == DbSelectCompany(<<handle>>, cs, js, nid)
        jobRes == DbSelectJobsOfCompany(<<handle>>, cs, js, nid)
    IN  IF companyRes.rows = <<>>
        THEN Ret("NotFound", "No company", 2, jobRes)
        ELSE CompanyGetJobs(CompanyJs(companyRes.rows[1]), cs, js, nid)

\* Company.get(handle)
CompanyGet(handle, cs, js, nid) ==
    LET companyRes == DbSelectCompany(<<handle>>, cs, js, nid)
    IN  IF companyRes.rows = <<>>
        THEN Ret("NotFound", "No company", 1, companyRes)
        ELSE CompanyGetJobs(CompanyJs(companyRes.rows[1]), cs, js, nid)

\* a faulty variant of CompanyUpdateQuery: the handle is not appended to
\* the bind values
CompanyUpdateQueryNoHandle(handle, setCols, values) ==
    [setCols  |-> setCols,
     wherePos |-> Len(values) + 1,
     params   |-> values]

\* the statement of Company.update and its bind values:
\* `UPDATE companies SET ${setCols} WHERE handle = ${handleVarIdx}` with
\* handleVarIdx = '$' + (values.length + 1), run with [...values, handle]
CompanyUpdateQuery(handle, setCols, values) ==
    LET handleVarIdx == Len(values) + 1
    IN  [setCols  |-> setCols,
         wherePos |-> handleVarIdx,
         params   |-> Append(values, handle)]

\* a faulty variant of CompanyUpdate: RETURNING names the columns without
\* their aliases
CompanyUpdateNoAlias(handle, data, cs, js, nid) ==
    LET u == SqlForPartialUpdate(data, CompanyJsToSql)
    IN  IF u.err # "none"
        THEN Ret(u.err, "No data", 0, DbOut("none", <<>>, cs, js, nid))
        ELSE LET q == CompanyUpdateQuery(handle, u.setCols, u.values)
                 result == DbUpdateCompany(q.setCols, q.wherePos, q.params,
                                           cs, js, nid)
             IN  IF result.err # "none" THEN Ret("DbError", result.err, 1, result)
                 ELSE IF result.rows = <<>>
                 THEN Ret("NotFound", "No company", 1, result)
                 ELSE Ret("ok", result.rows[1], 1, result)

\* Company.update(handle, data)
CompanyUpdate(handle, data, cs, js, nid) ==
    LET u == SqlForPartialUpdate(data, CompanyJsToSql)
    IN  IF u.err # "none"
        THEN Ret(u.err, "No data", 0, DbOut("none", <<>>, cs, js, nid))
        ELSE LET q == CompanyUpdateQuery(handle, u.setCols, u.values)
                 result == DbUpdateCompany(q.setCols, q.wherePos, q.params,
                                           cs, js, nid)
             IN  IF result.err # "none" THEN Ret("DbError", result.err, 1, result)
                 ELSE IF result.rows = <<>>
                 THEN Ret("NotFound", "No company", 1, result)
                 ELSE Ret("ok", CompanyJs(result.rows[1]), 1, result)

\* Company.remove(handle); action is the store's referential action
CompanyRemove(handle, cs, js, nid, action) ==
    LET result == DbDeleteCompany(<<handle>>, cs, js, nid, action)
    IN  IF result.err # "none" THEN Ret("DbError", result.err, 1, result)
        ELSE IF result.rows = <<>> THEN Ret("NotFound", "No company", 1, result)
        ELSE Ret("ok", <<>>, 1, result)

\* Job.create({title, salary, equity, companyHandle})
JobCreate(j, cs, js, nid) ==
    LET result == DbInsertJob(<<j.title, j.salary, j.equity, j.companyHandle>>,
                              cs, js, nid)
    IN  IF result.err # "none" THEN Ret("DbError", result.err, 1, result)
        ELSE Ret("ok", JobJs(result.rows[1]), 1, result)

\* a faulty variant of JobGetCompany: companyHandle is not deleted
JobGetCompanyKeepsHandle(job, cs, js, nid) ==
    LET companyRes == DbSelectCompany(<<job.companyHandle>>, cs, js, nid)
    IN  Ret("ok",
            [id |-> job.id, title |-> job.title, salary |-> job.salary,
             equity |-> job.equity, companyHandle |-> job.companyHandle,
             company |-> [i \in 1..Len(companyRes.rows) |->
                             CompanyJs(companyRes.rows[i])]],
            2, companyRes)

\* Job.get, second round trip: the company of the job.  company is
\* companyRes.rows[0], kept as the list of zero or one row it is read from.
JobGetCompany(job, cs, js, nid) ==
    LET companyRes == DbSelectCompany(<<job.companyHandle>>, cs, js, nid)
    IN  Ret("ok",
            [id |-> job.id, title |-> job.title, salary |-> job.salary,
             equity |-> job.equity,
             company |-> [i \in 1..Len(companyRes.rows) |->
                             CompanyJs(companyRes.rows[i])]],
            2, companyRes)

\* Job.get(id)
JobGet(id, cs, js, nid) ==
    LET jobRes == DbSelectJob(<<id>>, cs, js, nid)
    IN  IF jobRes.rows = <<>> THEN Ret("NotFound", "No job", 1, jobRes)
        ELSE JobGetCompany(JobJs(jobRes.rows[1]), cs, js, nid)

\* the statement of Job.update and its bind values:
\* `UPDATE jobs SET ${setCols} WHERE id = ${idVarIdx}` with
\* idVarIdx = '$' + (values.length + 1), run with [...values, id]
JobUpdateQuery(id, setCols, values) ==
    LET idVarIdx == Len(values) + 1
    IN  [setCols  |-> setCols,
         wherePos |-> idVarIdx,
         params   |-> Append(values, id)]

\* Job.update(id, data)
JobUpdate(id, data, cs, js, nid) ==
    LET u == SqlForPartialUpdate(data, JobJsToSql)
    IN  IF u.err # "none"
        THEN Ret(u.err, "No data", 0, DbOut("none", <<>>, cs, js, nid))
        ELSE LET q == JobUpdateQuery(id, u.setCols, u.values)
                 result == DbUpdateJob(q.setCols, q.wherePos, q.params,
                                       cs, js, nid)
             IN  IF result.err # "none" THEN Ret("DbError", result.err, 1, result)
                 ELSE IF result.rows = <<>>
                 THEN Ret("NotFound", "Job not found", 1, result)
                 ELSE Ret("ok", JobJs(result.rows[1]), 1, result)

\* a faulty variant of JobRemove: a delete that returns no row is not reported
JobRemoveNoCheck(id, cs, js, nid) ==
    Ret("ok", <<>>, 1, DbDeleteJob(<<id>>, cs, js, nid))

\* Job.remove(id)
JobRemove(id, cs, js, nid) ==
    LET result == DbDeleteJob(<<id>>, cs, js, nid)
    IN  IF result.rows = <<>> THEN Ret("NotFound", "No job", 1, result)
        ELSE Ret("ok", <<>>, 1, result)

(***************************************************************************)
(* The calls, one after the other: a call runs to its end, its result is   *)
(* with the caller (last), and the caller takes it (Return) before the     *)
(* next call.                                                              *)
(***************************************************************************)
Init ==
    /\ companies = {}
    /\ jobs = {}
    /\ nextId = 1
    /\ onDelete \in {"CASCADE", "NO ACTION"}
    /\ last = NoCall
    /\ inflight = <<>>

\* the statement an update builds from its arguments, none when data is
\* empty; kept with the call for the properties that read it
UpdateQueryOf(op, id, data) ==
    IF data = <<>> THEN <<>>
    ELSE IF op = "Company.update"
    THEN LET u == SqlForPartialUpdate(data, CompanyJsToSql)
         IN  CompanyUpdateQuery(id, u.setCols, u.values)
    ELSE LET u == SqlForPartialUpdate(data, JobJsToSql)
         IN  JobUpdateQuery(id, u.setCols, u.values)

Returned(op, id, data, aux, r) ==
    /\ last' = [op |-> op, id |-> id, data |-> data, aux |-> aux,
                outcome |-> r.outcome, nq |-> r.nq, res |-> r.res]
    /\ companies' = r.companies
    /\ jobs' = r.jobs
    /\ nextId' = r.nextId
    /\ UNCHANGED <<onDelete, inflight>>

Return ==
    /\ last.op # "none"
    /\ last' = NoCall
    /\ UNCHANGED <<companies, jobs, nextId, onDelete, inflight>>

DoCompanyCreate ==
    /\ last.op = "none"
    /\ \E c \in NewCompanies :
        Returned("Company.create", c.handle, <<>>, c,
                 CompanyCreate(c, companies, jobs, nextId))

DoCompanyGet ==
    /\ last.op = "none"
    /\ \E h \in CallHandles :
        Returned("Company.get", h, <<>>, <<>>,
                 CompanyGet(h, companies, jobs, nextId))

DoCompanyUpdate ==
    /\ last.op = "none"
    /\ \E h \in CallHandles, data \in Objects(CompanyEntries, MaxFields) :
        Returned("Company.update", h, data,
                 UpdateQueryOf("Company.update", h, data),
                 CompanyUpdate(h, data, companies, jobs, nextId))

DoCompanyRemove ==
    /\ last.op = "none"
    /\ \E h \in CallHandles :
        Returned("Company.remove", h, <<>>, <<>>,
                 CompanyRemove(h, companies, jobs, nextId, onDelete))

DoJobCreate ==
    /\ last.op = "none"
    /\ nextId <= MaxJobId
    /\ \E j \in NewJobs :
        Returned("Job.create", nextId, <<>>, j,
                 JobCreate(j, companies, jobs, nextId))

DoJobGet ==
    /\ last.op = "none"
    /\ \E id \in CallIds :
        Returned("Job.get", id, <<>>, <<>>, JobGet(id, companies, jobs, nextId))

DoJobUpdate ==
    /\ last.op = "none"
    /\ \E id \in CallIds, data \in Objects(JobEntries, MaxFields) :
        Returned("Job.update", id, data,
                 UpdateQueryOf("Job.update", id, data),
                 JobUpdate(id, data, companies, jobs, nextId))

DoJobRemove ==
    /\ last.op = "none"
    /\ \E id \in CallIds :
        Returned("Job.remove", id, <<>>, <<>>,
                 JobRemove(id, companies, jobs, nextId))

Next ==
    \/ DoCompanyCreate
    \/ DoCompanyGet
    \/ DoCompanyUpdate
    \/ DoCompanyRemove
    \/ DoJobCreate
    \/ DoJobGet
    \/ DoJobUpdate
    \/ DoJobRemove
    \/ Return

Spec == Init /\ [][Next]_vars

(***************************************************************************)
(* Claims about the calls made one after the other.                        *)
(***************************************************************************)
CompanyExists(h) == \E c \in companies : c.handle = h
JobExists(id) == \E j \in jobs : j.id = id
StoreUnchanged == companies' = companies /\ jobs' = jobs /\ nextId' = nextId

\* C2: Company.update and Job.update called with an empty data object fail
\* with BadRequest whatever the identifier, before any db.query call, and
\* leave the store as it was.
C2_EmptyUpdateRejected ==
    [][(/\ last.op = "none"
        /\ last'.op \in {"Company.update", "Job.update"}
        /\ last'.data = <<>>)
       => (/\ last'.outcome = "BadRequest"
           /\ last'.nq = 0
           /\ StoreUnchanged)]_vars

\* C2 witness: an empty update of a company that exists was rejected
C2_Witness ==
    /\ last.op = "Company.update"
    /\ last.data = <<>>
    /\ CompanyExists(last.id)
    /\ last.outcome = "BadRequest"

\* the call that is returning names no row of its table
NoSuchRow ==
    \/ /\ last'.op \in {"Company.get", "Company.update", "Company.remove"}
       /\ ~CompanyExists(last'.id)
    \/ /\ last'.op \in {"Job.get", "Job.update", "Job.remove"}
       /\ ~JobExists(last'.id)

\* C3 as stated: get, update and remove of an identifier that has no row
\* fail with NotFound, whatever data update is given, and leave the store
\* as it was.
C3_AsStated ==
    [][(last.op = "none" /\ NoSuchRow)
       => (last'.outcome = "NotFound" /\ StoreUnchanged)]_vars

\* the columns the keys of data are assigned to are columns of the table
NamesColumns(data, jsToSql, columns) ==
    \A i \in 1..Len(data) : ColumnOf(jsToSql, data[i].k) \in columns

\* C3 amended: get and remove of an identifier that has no row fail with
\* NotFound, and so does update when data is not empty and each of its keys
\* is assigned to a column of the table; update fails with BadRequest when
\* data is empty, and with the error of the store when a key is assigned to
\* no column of the table.  The store is left as it was in every case.
C3_NoSuchRow ==
    [][(last.op = "none" /\ NoSuchRow)
       => (/\ StoreUnchanged
           /\ last'.op \in {"Company.get", "Company.remove", "Job.get", "Job.remove"}
                => last'.outcome = "NotFound"
           /\ (last'.op \in {"Company.update", "Job.update"} /\ last'.data = <<>>)
                => last'.outcome = "BadRequest"
           /\ (last'.op = "Company.update" /\ last'.data # <<>>)
                => last'.outcome =
                     IF NamesColumns(last'.data, CompanyJsToSql, CompanyColumns)
                     THEN "NotFound" ELSE "DbError"
           /\ (last'.op = "Job.update" /\ last'.data # <<>>)
                => last'.outcome =
                     IF NamesColumns(last'.data, JobJsToSql, JobColumns)
                     THEN "NotFound" ELSE "DbError")]_vars

\* C3 witness: an update with data of a job that does not exist, while
\* another job does, failed with NotFound
C3_Witness ==
    /\ last.op = "Job.update"
    /\ last.data # <<>>
    /\ ~JobExists(last.id)
    /\ jobs # {}
    /\ last.outcome = "NotFound"

\* C5 as stated: a job keeps the id and the company handle it was created
\* with across every Job.update (data that names id or companyHandle being
\* rejected, the row is left as it was).
C5_AsStated ==
    [][(last.op = "none" /\ last'.op = "Job.update")
       => \A j \in jobs : \E n \in jobs' :
              n.id = j.id /\ n.company_handle = j.company_handle]_vars

\* C6: every job names a company that exists; Job.create with the handle
\* of no company fails and adds no job; Job.get of a job that exists
\* attaches its company.
C6_JobsReferenceCompanies ==
    [][/\ \A j \in jobs' : \E c \in companies' : c.handle = j.company_handle
       /\ (/\ last.op = "none"
           /\ last'.op = "Job.create"
           /\ ~CompanyExists(last'.aux.companyHandle))
             => (last'.outcome = "DbError" /\ jobs' = jobs)
       /\ (last'.op = "Job.get" /\ last'.outcome = "ok")
             => Len(last'.res.company) = 1]_vars

\* C6 witness: Job.create with the handle of no company, called while
\* companies exist, was refused by the store and left no job with its id
C6_Witness ==
    /\ last.op = "Job.create"
    /\ ~CompanyExists(last.aux.companyHandle)
    /\ companies # {}
    /\ last.outcome = "DbError"
    /\ last.res = "foreign_key_violation"

(***************************************************************************)
(* Company calls of two clients, interleaved at the storage round trips.   *)
(* Company.create awaits db.query twice, so another call can run between   *)
(* its duplicate check and its insert; update and remove make one round    *)
(* trip.  A call that returns leaves its result in last.                   *)
(***************************************************************************)
Procs == {"p1", "p2"}

Idle == [pc |-> "idle", c |-> <<>>]

\* the records the interleaved creates are called with: two of them share
\* the handle c1
ConcCompanies ==
    NewCompanies \cup
    {[handle |-> "c1", name |-> <<"c", "2">>, description |-> "Other",
      numEmployees |-> 2, logoUrl |-> NullStr]}

InitConc ==
    /\ companies = {}
    /\ jobs = {}
    /\ nextId = 1
    /\ onDelete = "NO ACTION"
    /\ last = NoCall
    /\ inflight = [p \in Procs |-> Idle]

\* Company.create up to the end of its first await: the duplicate check,
\* and the throw when it finds a row
ConcCreateLookup(p) ==
    /\ inflight[p].pc = "idle"
    /\ \E c \in ConcCompanies :
        LET duplicateCheck == CompanyCreateLookup(c, companies, jobs, nextId)
        IN  IF IsDuplicate(duplicateCheck)
            THEN /\ last.op = "none"
                 /\ last' = [op |-> "Company.create", id |-> c.handle,
                             data |-> <<>>, aux |-> c, outcome |-> "BadRequest",
                             nq |-> 1, res |-> "Duplicate company"]
                 /\ UNCHANGED <<companies, jobs, nextId, onDelete, inflight>>
            ELSE /\ inflight' = [inflight EXCEPT ![p] = [pc |-> "insert", c |-> c]]
                 /\ UNCHANGED <<companies, jobs, nextId, onDelete, last>>

\* Company.create from its first await to its end: the insert
ConcCreateInsert(p) ==
    /\ inflight[p].pc = "insert"
    /\ last.op = "none"
    /\ inflight' = [inflight EXCEPT ![p] = Idle]
    /\ LET r == CompanyCreateInsert(inflight[p].c, companies, jobs, nextId)
       IN  /\ last' = [op |-> "Company.create", id |-> inflight[p].c.handle,
                       data |-> <<>>, aux |-> inflight[p].c,
                       outcome |-> r.outcome, nq |-> r.nq, res |-> r.res]
           /\ companies' = r.companies
           /\ jobs' = r.jobs
           /\ nextId' = r.nextId
    /\ UNCHANGED onDelete

ConcCompanyUpdate(p) ==
    /\ inflight[p].pc = "idle"
    /\ last.op = "none"
    /\ \E h \in CallHandles, data \in Objects(CompanyEntries, MaxFields) :
        LET r == CompanyUpdate(h, data, companies, jobs, nextId)
        IN  /\ last' = [op |-> "Company.update", id |-> h, data |-> data,
                        aux |-> <<>>, outcome |-> r.outcome, nq |-> r.nq,
                        res |-> r.res]
            /\ companies' = r.companies
            /\ jobs' = r.jobs
            /\ nextId' = r.nextId
    /\ UNCHANGED <<onDelete, inflight>>

ConcCompanyRemove(p) ==
    /\ inflight[p].pc = "idle"
    /\ last.op = "none"
    /\ \E h \in CallHandles :
        LET r == CompanyRemove(h, companies, jobs, nextId, onDelete)
        IN  /\ last' = [op |-> "Company.remove", id |-> h, data |-> <<>>,
                        aux |-> <<>>, outcome |-> r.outcome, nq |-> r.nq,
                        res |-> r.res]
            /\ companies' = r.companies
            /\ jobs' = r.jobs
            /\ nextId' = r.nextId
    /\ UNCHANGED <<onDelete, inflight>>

NextConc ==
    \/ \E p \in Procs : ConcCreateLookup(p)
    \/ \E p \in Procs : ConcCreateInsert(p)
    \/ \E p \in Procs : ConcCompanyUpdate(p)
    \/ \E p \in Procs : ConcCompanyRemove(p)
    \/ Return

SpecConc == InitConc /\ [][NextConc]_vars

\* C4 as stated: the duplicate check of Company.create is what keeps the
\* handles unique: a create that is about to insert inserts a handle the
\* store does not hold, so no storage-level constraint is relied on.
C4_AsStated ==
    \A p \in Procs :
        inflight[p].pc = "insert" => ~CompanyExists(inflight[p].c.handle)

\* C4 amended: the store holds at most one company per handle; a create
\* passes its duplicate check only for a handle the store does not hold at
\* that moment, and one that finds the handle fails with BadRequest after
\* one round trip and changes nothing; a create whose handle was inserted
\* between its check and its insert is rejected by the store's primary
\* key, with an error that is not BadRequest.
C4_UniqueHandles ==
    [][/\ \A a, b \in companies' : a.handle = b.handle => a = b
       /\ \A p \in Procs :
            (inflight[p].pc = "idle" /\ inflight'[p].pc = "insert")
              => ~CompanyExists(inflight'[p].c.handle)
       /\ (last.op = "none" /\ last'.op = "Company.create"
           /\ last'.outcome = "BadRequest")
              => (last'.nq = 1 /\ StoreUnchanged /\ CompanyExists(last'.id))
       /\ \A p \in Procs :
            (inflight[p].pc = "insert" /\ inflight'[p].pc = "idle"
             /\ CompanyExists(inflight[p].c.handle))
              => (/\ last'.outcome = "DbError"
                  /\ last'.res = "unique_violation"
                  /\ StoreUnchanged)]_vars

\* C4 witness: a create found its handle taken by the time of its insert
C4_Witness ==
    /\ last.op = "Company.create"
    /\ last.outcome = "DbError"
    /\ last.res = "unique_violation"
    /\ \E c \in companies : c.handle = last.id /\ c.name # last.aux.name

(***************************************************************************)
(* Listing.  Text is compared character by character; the characters the   *)
(* model uses are those of Alphabet, in byte order.                        *)
(***************************************************************************)
Alphabet == <<"%", "1", "2", "3", "4", "C", "T", "c", "t", "x">>

CharCode(ch) == CHOOSE i \in 1..Len(Alphabet) : Alphabet[i] = ch

Lower(ch) == CASE ch = "C" -> "c" [] ch = "T" -> "t" [] OTHER -> ch

\* text ILIKE pattern, % standing for any run of characters
RECURSIVE ILike(_, _)
ILike(text, pattern) ==
    IF pattern = <<>> THEN text = <<>>
    ELSE IF Head(pattern) = "%"
    THEN \E i \in 0..Len(text) :
            ILike(SubSeq(text, i + 1, Len(text)), Tail(pattern))
    ELSE /\ text # <<>>
         /\ Lower(Head(text)) = Lower(Head(pattern))
         /\ ILike(Tail(text), Tail(pattern))

\* a <= b for text, in byte order
RECURSIVE TextLE(_, _)
TextLE(a, b) ==
    IF a = <<>> THEN TRUE
    ELSE IF b = <<>> THEN FALSE
    ELSE IF Head(a) = Head(b) THEN TextLE(Tail(a), Tail(b))
    ELSE CharCode(Head(a)) < CharCode(Head(b))

\* the value of a numeric text of the equity column, in tenths
Tenths(e) ==
    CASE e = "0" -> 0 [] e = "0.1" -> 1 [] e = "0.2" -> 2 [] e = "0.5" -> 5

\* one predicate of a WHERE clause on a row.  A fragment is [col, op, pos]
\* when it reads parameter $pos and [col, op, lit] when it compares with a
\* literal; a comparison with NULL selects nothing.
Holds(row, frag, params) ==
    CASE frag.op = ">=" -> row[frag.col] # NullInt /\ row[frag.col] >= params[frag.pos]
      [] frag.op = "<=" -> row[frag.col] # NullInt /\ row[frag.col] <= params[frag.pos]
      [] frag.op = "ILIKE" -> ILike(row[frag.col], params[frag.pos])
      [] frag.op = ">" -> row[frag.col] # NullStr /\ Tenths(row[frag.col]) > frag.lit

\* the rows of S that satisfy every predicate (the predicates are joined
\* with AND)
Where(S, whereStatements, params) ==
    {r \in S : \A i \in 1..Len(whereStatements) : Holds(r, whereStatements[i], params)}

\* the orders ORDER BY key may return the rows of S in: rows with equal
\* keys come in any order
RECURSIVE OrderBy(_, _)
OrderBy(S, key) ==
    IF S = {} THEN {<<>>}
    ELSE UNION {{<<m>> \o rest : rest \in OrderBy(S \ {m}, key)} :
                   m \in {r \in S : \A q \in S : TextLE(r[key], q[key])}}

\* SELECT handle, name, description, num_employees AS "numEmployees",
\* logo_url AS "logoUrl" FROM companies [WHERE ...] ORDER BY name: the
\* lists the statement may return
DbSelectCompanies(whereStatements, params, cs) ==
    {[i \in 1..Len(rows) |-> CompanyJs(rows[i])] :
        rows \in OrderBy(Where(cs, whereStatements, params), "name")}

\* SELECT j.id, j.title, j.salary, j.equity, j.company_handle AS
\* "companyHandle", c.name AS "companyName" FROM jobs j LEFT JOIN companies
\* AS c ON c.handle = j.company_handle [WHERE ...] ORDER BY title
DbSelectJobs(whereStatements, params, cs, js) ==
    {[i \in 1..Len(rows) |->
         [id |-> rows[i].id, title |-> rows[i].title, salary |-> rows[i].salary,
          equity |-> rows[i].equity, companyHandle |-> rows[i].company_handle,
          companyName |->
              IF \E c \in cs : c.handle = rows[i].company_handle
              THEN (CHOOSE c \in cs : c.handle = rows[i].company_handle).name
              ELSE <<>>]] :
        rows \in OrderBy(Where(js, whereStatements, params), "title")}

\* filterOptions.key, undefined when the key is absent
Has(filterOptions, key) == key \in DOMAIN filterOptions

\* a faulty variant of MinExceedsMax: equal bounds are rejected too
MinExceedsMaxOrEqual(filterOptions) ==
    /\ Has(filterOptions, "minEmployees")
    /\ Has(filterOptions, "maxEmployees")
    /\ filterOptions.minEmployees >= filterOptions.maxEmployees

\* `minEmployees > maxEmployees`: false when either is undefined
MinExceedsMax(filterOptions) ==
    /\ Has(filterOptions, "minEmployees")
    /\ Has(filterOptions, "maxEmployees")
    /\ filterOptions.minEmployees > filterOptions.maxEmployees

\* whereValues.push(value); whereStatements.push(`<col> <op> $${whereValues.length}`)
Push(w, col, op, value) ==
    LET whereValues == Append(w.whereValues, value)
    IN  [whereValues |-> whereValues,
         whereStatements |->
             Append(w.whereStatements,
                    [col |-> col, op |-> op, pos |-> Len(whereValues)])]

\* `%${text}%`
Wrapped(text) == <<"%">> \o text \o <<"%">>

\* Company.findAll, the WHERE clause: whereStatements and whereValues after
\* the three tests.  `if (name)` is false for the empty string.
CompanyWhere(filterOptions) ==
    LET w0 == [whereStatements |-> <<>>, whereValues |-> <<>>]
        w1 == IF Has(filterOptions, "minEmployees")
              THEN Push(w0, "num_employees", ">=", filterOptions.minEmployees)
              ELSE w0
        w2 == IF Has(filterOptions, "maxEmployees")
              THEN Push(w1, "num_employees", "<=", filterOptions.maxEmployees)
              ELSE w1
    IN  IF Has(filterOptions, "name") /\ filterOptions.name # <<>>
        THEN Push(w2, "name", "ILIKE", Wrapped(filterOptions.name))
        ELSE w2

\* The text of a statement is the list of its pieces: white space, a
\* keyword or other fixed text, or a predicate fragment (which ends with its
\* placeholder or literal).  Pieces with no white space between them are
\* run together in the text.
Space == [t |-> "space", v |-> " "]
Text(v) == [t |-> "text", v |-> v]
Fragment(i) == [t |-> "frag", v |-> i]

\* whereStatements.join(' AND '), the i-th fragment standing for its text
RECURSIVE JoinAnd(_, _)
JoinAnd(n, i) ==
    IF i > n THEN <<>>
    ELSE (IF i = 1 THEN <<>> ELSE <<Space, Text("AND"), Space>>)
         \o <<Fragment(i)>> \o JoinAnd(n, i + 1)

\* some piece of the text is followed by another with no white space
RunTogether(mainQuery) ==
    \E i \in 1..(Len(mainQuery) - 1) :
        mainQuery[i].t # "space" /\ mainQuery[i + 1].t # "space"

\* how the store reads a statement: a text whose pieces are all set apart
\* is parsed; a placeholder run together with the word after it ($1ORDER)
\* is read as two tokens by some versions of the store and refused as a
\* syntax error by others
DbParse(mainQuery) ==
    IF RunTogether(mainQuery) THEN {"none", "syntax_error"} ELSE {"none"}

\* Company.findAll, the text of the statement: the select (which ends in
\* white space), ` WHERE ${wheresToAdd}` when there are fragments, and
\* `ORDER BY name`
CompanyMainQuery(whereStatements) ==
    <<Text("SELECT handle, name, description, num_employees, logo_url FROM companies"),
      Space>>
    \o (IF Len(whereStatements) > 0
        THEN <<Space, Text("WHERE"), Space>> \o JoinAnd(Len(whereStatements), 1)
        ELSE <<>>)
    \o <<Text("ORDER BY name")>>

\* Job.findAll, the text of the statement: the select (which ends in a
\* space), ` WHERE ${wheresToAdd} ` when there are fragments, and
\* `ORDER BY title`
JobMainQuery(whereStatements) ==
    <<Text("SELECT j.id, j.title, j.salary, j.equity, j.company_handle, c.name FROM jobs j LEFT JOIN companies AS c ON c.handle = j.company_handle"),
      Space>>
    \o (IF Len(whereStatements) > 0
        THEN <<Space, Text("WHERE"), Space>> \o JoinAnd(Len(whereStatements), 1)
             \o <<Space>>
        ELSE <<>>)
    \o <<Text("ORDER BY title")>>

\* what a listing built: the fragments, the bind values and the statement
Built(w, mainQuery) ==
    [whereStatements |-> w.whereStatements, whereValues |-> w.whereValues,
     mainQuery |-> mainQuery]

\* Company.findAll(filterOptions): the results it may return, one per order
\* the store may answer in and one for the statement being refused
CompanyFindAll(filterOptions, cs, js, nid) ==
    IF MinExceedsMax(filterOptions)
    THEN {[outcome |-> "BadRequest", res |-> <<>>, nq |-> 0,
           built |-> Built([whereStatements |-> <<>>, whereValues |-> <<>>], <<>>)]}
    ELSE LET w == CompanyWhere(filterOptions)
             mainQuery == CompanyMainQuery(w.whereStatements)
         IN  {[outcome |-> "ok", res |-> rows, nq |-> 1, built |-> Built(w, mainQuery)] :
                 rows \in DbSelectCompanies(w.whereStatements, w.whereValues, cs)}
             \cup
             {[outcome |-> "DbError", res |-> err, nq |-> 1, built |-> Built(w, mainQuery)] :
                 err \in DbParse(mainQuery) \ {"none"}}

\* the boolean true, as a value of any type a caller may pass for hasEquity
JsTrue == [t |-> "boolean", v |-> "true"]
JsFalse == [t |-> "boolean", v |-> "false"]

\* a faulty variant of HasEquityTrue: any truthy value counts
HasEquityTruthy(filterOptions) ==
    Has(filterOptions, "hasEquity") /\ filterOptions.hasEquity # JsFalse

\* `hasEquity === true`
HasEquityTrue(filterOptions) ==
    Has(filterOptions, "hasEquity") /\ filterOptions.hasEquity = JsTrue

\* Job.findAll, the WHERE clause
JobWhere(filterOptions) ==
    LET w0 == [whereStatements |-> <<>>, whereValues |-> <<>>]
        w1 == IF Has(filterOptions, "minSalary")
              THEN Push(w0, "salary", ">=", filterOptions.minSalary)
              ELSE w0
        w2 == IF HasEquityTrue(filterOptions)
              THEN [w1 EXCEPT !.whereStatements =
                       Append(@, [col |-> "equity", op |-> ">", lit |-> 0])]
              ELSE w1
    IN  IF Has(filterOptions, "title")
        THEN Push(w2, "title", "ILIKE", Wrapped(filterOptions.title))
        ELSE w2

\* Job.findAll(filterOptions)
JobFindAll(filterOptions, cs, js, nid) ==
    LET w == JobWhere(filterOptions)
        mainQuery == JobMainQuery(w.whereStatements)
    IN  {[outcome |-> "ok", res |-> rows, nq |-> 1, built |-> Built(w, mainQuery)] :
            rows \in DbSelectJobs(w.whereStatements, w.whereValues, cs, js)}
        \cup
        {[outcome |-> "DbError", res |-> err, nq |-> 1, built |-> Built(w, mainQuery)] :
            err \in DbParse(mainQuery) \ {"none"}}

(***************************************************************************)
(* routes/jobs.js: GET /jobs                                               *)
(***************************************************************************)
\* unary plus on a text of the query string
ToNumber(text) ==
    CASE text = "0" -> 0
      [] text = "200" -> 200
      [] text = "300" -> 300
      [] text = "" -> 0
      [] OTHER -> NaN

\* the status the error handler answers an outcome with
StatusOf(outcome) ==
    CASE outcome = "ok" -> 200
      [] outcome = "BadRequest" -> 400
      [] outcome = "NotFound" -> 404
      [] OTHER -> 500

\* jsonschema.validate(filters, jobSearchSchema).valid: minSalary, when
\* present, is a number (NaN is none), hasEquity a boolean, title a string
ValidJobSearch(filters) ==
    /\ Has(filters, "minSalary") => filters.minSalary # NaN
    /\ Has(filters, "hasEquity") => filters.hasEquity.t = "boolean"

\* the filters GET /jobs derives from req.query: minSalary converted when
\* present, hasEquity set to `filters.hasEquity === 'true'`
QueryFilters(query) ==
    LET f1 == IF Has(query, "minSalary")
              THEN [query EXCEPT !.minSalary = ToNumber(@)]
              ELSE query
    IN  [k \in DOMAIN f1 \cup {"hasEquity"} |->
            IF k = "hasEquity"
            THEN IF Has(query, "hasEquity") /\ query.hasEquity = "true"
                 THEN JsTrue ELSE JsFalse
            ELSE f1[k]]

\* GET /jobs with req.query = query
GetJobs(query, cs, js, nid) ==
    LET filters == QueryFilters(query)
    IN  IF ~ValidJobSearch(filters)
        THEN {[outcome |-> "BadRequest", res |-> [status |-> StatusOf("BadRequest")],
               nq |-> 0, filters |-> filters, called |-> FALSE]}
        ELSE {[outcome |-> r.outcome,
               res |-> [status |-> StatusOf(r.outcome), jobs |-> r.res],
               nq |-> r.nq, filters |-> filters, called |-> TRUE] :
                 r \in JobFindAll(filters, cs, js, nid)}

(***************************************************************************)
(* Listing a store that holds the rows of the tests.                       *)
(***************************************************************************)
FixtureCompanies ==
    {[handle |-> "c1", name |-> <<"C", "1">>, description |-> "Desc1",
      num_employees |-> 1, logo_url |-> "http://c1.img"],
     [handle |-> "c2", name |-> <<"c", "2">>, description |-> "Desc2",
      num_employees |-> 2, logo_url |-> "http://c2.img"],
     [handle |-> "c3", name |-> <<"C", "3">>, description |-> "Desc3",
      num_employees |-> NullInt, logo_url |-> NullStr]}

FixtureJobs ==
    {[id |-> 1, title |-> <<"t", "1">>, salary |-> 100, equity |-> "0.1",
      company_handle |-> "c1"],
     [id |-> 2, title |-> <<"T", "2">>, salary |-> 200, equity |-> "0.2",
      company_handle |-> "c1"],
     [id |-> 3, title |-> <<"t", "3">>, salary |-> 300, equity |-> "0",
      company_handle |-> "c1"],
     [id |-> 4, title |-> <<"t", "4">>, salary |-> NullInt, equity |-> NullStr,
      company_handle |-> "c1"]}

\* the objects with key present (one per value) or absent
Optional(key, values) == {<<>>} \cup {key :> v : v \in values}

CompanyFilters ==
    {a @@ b @@ c :
        a \in Optional("minEmployees", {0, 1, 2}),
        b \in Optional("maxEmployees", {0, 1, 2}),
        c \in Optional("name", {<<>>, <<"c">>, <<"1">>})}

JobFilters ==
    {a @@ b @@ c :
        a \in Optional("minSalary", {0, 200}),
        b \in Optional("hasEquity", {JsTrue, JsFalse, [t |-> "string", v |-> "true"]}),
        c \in Optional("title", {<<>>, <<"t">>, <<"2">>})}

JobQueries ==
    {a @@ b @@ c :
        a \in Optional("minSalary", {"0", "200", "fifty"}),
        b \in Optional("hasEquity", {"true", "false", "1"}),
        c \in Optional("title", {<<>>, <<"t">>})}

InitFind ==
    /\ companies \in SUBSET FixtureCompanies
    /\ jobs \in SUBSET FixtureJobs
    /\ \A j \in jobs : \E c \in companies : c.handle = j.company_handle
    /\ nextId = 5
    /\ onDelete = "NO ACTION"
    /\ last = NoCall
    /\ inflight = <<>>

DoCompanyFindAll ==
    /\ last.op = "none"
    /\ \E filterOptions \in CompanyFilters :
        \E r \in CompanyFindAll(filterOptions, companies, jobs, nextId) :
            last' = [op |-> "Company.findAll", id |-> 0, data |-> filterOptions,
                     aux |-> r.built, outcome |-> r.outcome, nq |-> r.nq,
                     res |-> r.res]
    /\ UNCHANGED <<companies, jobs, nextId, onDelete, inflight>>

DoJobFindAll ==
    /\ last.op = "none"
    /\ \E filterOptions \in JobFilters :
        \E r \in JobFindAll(filterOptions, companies, jobs, nextId) :
            last' = [op |-> "Job.findAll", id |-> 0, data |-> filterOptions,
                     aux |-> r.built, outcome |-> r.outcome, nq |-> r.nq,
                     res |-> r.res]
    /\ UNCHANGED <<companies, jobs, nextId, onDelete, inflight>>

DoGetJobs ==
    /\ last.op = "none"
    /\ \E query \in JobQueries :
        \E r \in GetJobs(query, companies, jobs, nextId) :
            last' = [op |-> "GET /jobs", id |-> 0, data |-> query,
                     aux |-> [filters |-> r.filters, called |-> r.called],
                     outcome |-> r.outcome, nq |-> r.nq, res |-> r.res]
    /\ UNCHANGED <<companies, jobs, nextId, onDelete, inflight>>

NextFind ==
    \/ DoCompanyFindAll
    \/ DoJobFindAll
    \/ DoGetJobs
    \/ Return

SpecFind == InitFind /\ [][NextFind]_vars

\* C7: Company.findAll fails with BadRequest exactly when minEmployees and
\* maxEmployees are both supplied and minEmployees > maxEmployees, whether
\* or not name is supplied; it then has built no fragment and no bind value
\* and has issued no query.  In every other case it does not fail.
C7_MinAboveMaxRejected ==
    last.op = "Company.findAll" =>
        IF /\ "minEmployees" \in DOMAIN last.data
           /\ "maxEmployees" \in DOMAIN last.data
           /\ last.data.minEmployees > last.data.maxEmployees
        THEN /\ last.outcome = "BadRequest"
             /\ last.nq = 0
             /\ last.aux.whereStatements = <<>>
             /\ last.aux.whereValues = <<>>
        ELSE last.outcome # "BadRequest"

\* C7 witness: a call with a name and with min above max was rejected
C7_Witness ==
    /\ last.op = "Company.findAll"
    /\ last.outcome = "BadRequest"
    /\ "name" \in DOMAIN last.data
    /\ companies # {}

\* the criteria of a listing in their fixed order: the key of the filter,
\* the column and operator of its fragment, whether it carries a bind
\* value, and whether that value is wrapped in %
Criteria(op) ==
    IF op = "Company.findAll"
    THEN <<[key |-> "minEmployees", col |-> "num_employees", op |-> ">=",
            carries |-> TRUE, text |-> FALSE],
           [key |-> "maxEmployees", col |-> "num_employees", op |-> "<=",
            carries |-> TRUE, text |-> FALSE],
           [key |-> "name", col |-> "name", op |-> "ILIKE",
            carries |-> TRUE, text |-> TRUE]>>
    ELSE <<[key |-> "minSalary", col |-> "salary", op |-> ">=",
            carries |-> TRUE, text |-> FALSE],
           [key |-> "hasEquity", col |-> "equity", op |-> ">",
            carries |-> FALSE, text |-> FALSE],
           [key |-> "title", col |-> "title", op |-> "ILIKE",
            carries |-> TRUE, text |-> TRUE]>>

\* the fragments and bind values are those of the criteria sc, read from
\* the filter f: one fragment per criterion in order, $n the position of
\* the criterion's value in the bind values, which hold nothing else
BuiltFrom(sc, f, built) ==
    LET ws == built.whereStatements
        wv == built.whereValues
        n(i) == Cardinality({j \in 1..i : sc[j].carries})
    IN  /\ Len(ws) = Len(sc)
        /\ Len(wv) = n(Len(sc))
        /\ \A i \in 1..Len(sc) :
             /\ ws[i].col = sc[i].col
             /\ ws[i].op = sc[i].op
             /\ sc[i].carries =>
                  /\ ws[i].pos = n(i)
                  /\ wv[n(i)] = IF sc[i].text THEN <<"%">> \o f[sc[i].key] \o <<"%">>
                                ELSE f[sc[i].key]

\* a criterion is supplied when its key is in the filter (hasEquity: when
\* it is true)
IsSupplied(c, f) ==
    /\ c.key \in DOMAIN f
    /\ c.key = "hasEquity" => f.hasEquity = JsTrue

\* C8 as stated: for every subset of supplied criteria and every value, 0
\* and the empty string included, Company.findAll and Job.findAll build one
\* fragment per supplied criterion and none per absent one, in the fixed
\* order, each $n being the position of its value in the bind values; with
\* no criteria there is no fragment and no bind value.
C8_AsStated ==
    (last.op \in {"Company.findAll", "Job.findAll"} /\ last.outcome = "ok") =>
        BuiltFrom(SelectSeq(Criteria(last.op), LAMBDA c : IsSupplied(c, last.data)),
                  last.data, last.aux)

\* C8, what the code does: the same, but Company.findAll takes a name that
\* is the empty string for no name.
C8_EmptyNameSkipped ==
    (last.op \in {"Company.findAll", "Job.findAll"} /\ last.outcome = "ok") =>
        BuiltFrom(SelectSeq(Criteria(last.op),
                            LAMBDA c : /\ IsSupplied(c, last.data)
                                       /\ (last.op = "Company.findAll" /\ c.key = "name")
                                            => last.data.name # <<>>),
                  last.data, last.aux)

\* the object f without key
Without(f, key) == [k \in DOMAIN f \ {key} |-> f[k]]

\* the rows of a returned list
Range(list) == {list[i] : i \in 1..Len(list)}

PositiveEquity(job) == job.equity # NullStr /\ job.equity \notin {"0"}

\* the listing r is what Job.findAll answers for the filter f
AnswersFilter(r, f) ==
    LET base == JobFindAll(Without(f, "hasEquity"), companies, jobs, nextId)
    IN  IF "hasEquity" \in DOMAIN f /\ f.hasEquity = JsTrue
        THEN /\ \A j \in Range(r.res) : PositiveEquity(j)
             /\ \E b \in base :
                  /\ Range(r.res) = {j \in Range(b.res) : PositiveEquity(j)}
                  /\ Len(r.built.whereValues) = Len(b.built.whereValues)
                  /\ r.built.whereValues = b.built.whereValues
        ELSE \E b \in base : r.res = b.res

\* C9: Job.findAll with hasEquity exactly true returns the jobs of the same
\* call without hasEquity whose equity is above 0 (none with equity 0 or
\* NULL) and adds no bind value; with any other hasEquity, or none, it
\* returns what the call without hasEquity returns.  GET /jobs passes true
\* for the query value 'true' and false for every other, and answers with
\* the listing for that filter.
C9_HasEquity ==
    /\ last.op = "Job.findAll" =>
         AnswersFilter([res |-> last.res, built |-> last.aux], last.data)
    /\ (last.op = "GET /jobs" /\ last.aux.called) =>
         /\ last.aux.filters.hasEquity =
              IF "hasEquity" \in DOMAIN last.data /\ last.data.hasEquity = "true"
              THEN JsTrue ELSE JsFalse
         /\ \E b \in JobFindAll(last.aux.filters, companies, jobs, nextId) :
              /\ last.res.jobs = b.res
              /\ AnswersFilter(b, last.aux.filters)

\* C9 witness: the store holds jobs with equity 0, NULL and above 0, and a
\* listing with hasEquity true came back with fewer jobs than the store has
C9_Witness ==
    /\ last.op = "Job.findAll"
    /\ "hasEquity" \in DOMAIN last.data
    /\ last.data.hasEquity = JsTrue
    /\ "minSalary" \notin DOMAIN last.data
    /\ "title" \notin DOMAIN last.data
    /\ \E a, b, c \in jobs : a.equity = "0" /\ b.equity = NullStr /\ c.equity = "0.1"
    /\ last.res # <<>>
    /\ Len(last.res) < Cardinality(jobs)

(***************************************************************************)
(* routes/jobs.js: POST /jobs and PATCH /jobs/:id.  A request body is the  *)
(* list of its entries [k, t, v]: key, JSON type and value (for a value of *)
(* a type its key never has in the store, its literal).                    *)
(***************************************************************************)
BodyHas(body, key) == \E i \in 1..Len(body) : body[i].k = key

BodyGet(body, key, undefined) ==
    IF BodyHas(body, key)
    THEN body[CHOOSE i \in 1..Len(body) : body[i].k = key].v
    ELSE undefined

\* the pattern 0|(0?\.[0-9]+) finds a match in the text (it is not
\* anchored), for the texts the requests carry
EquityPattern(text) == text \in {"0", "0.1", "0.2", "0.5", "1.0"}

\* jsonschema.validate(body, jobNewSchema).valid
ValidJobNew(body) ==
    /\ BodyHas(body, "title")
    /\ BodyHas(body, "companyHandle")
    /\ \A i \in 1..Len(body) :
         CASE body[i].k = "companyHandle" ->
                /\ body[i].t = "string"
                /\ Len(body[i].v) >= 1
                /\ Len(body[i].v) <= 25
           [] body[i].k = "salary" -> body[i].t = "integer" /\ body[i].v >= 0
           [] body[i].k = "title" -> body[i].t = "string" /\ Len(body[i].v) >= 1
           [] body[i].k = "equity" -> body[i].t = "string" /\ EquityPattern(body[i].v)
           [] OTHER -> FALSE

\* jsonschema.validate(body, jobUpdateSchema).valid: every field optional,
\* the constraints of jobNew, no other key (so neither id nor companyHandle)
ValidJobUpdate(body) ==
    \A i \in 1..Len(body) :
        CASE body[i].k = "salary" -> body[i].t = "integer" /\ body[i].v >= 0
          [] body[i].k = "title" -> body[i].t = "string" /\ Len(body[i].v) >= 1
          [] body[i].k = "equity" -> body[i].t = "string" /\ EquityPattern(body[i].v)
          [] OTHER -> FALSE

\* what a route passes on: the outcome, the response, the round trips, the
\* store, and whether the Job operation was called
Passed(r, status, called) ==
    [outcome |-> r.outcome,
     res |-> [status |-> IF r.outcome = "ok" THEN status ELSE StatusOf(r.outcome),
              job |-> r.res],
     nq |-> r.nq, companies |-> r.companies, jobs |-> r.jobs,
     nextId |-> r.nextId, called |-> called]

Invalid(cs, js, nid) ==
    Passed(Ret("BadRequest", "errs", 0, DbOut("none", <<>>, cs, js, nid)), 400, FALSE)

\* a faulty variant of PostJobs: the body is not validated
PostJobsUnvalidated(body, cs, js, nid) ==
    Passed(JobCreate([title |-> BodyGet(body, "title", NullStr),
                      salary |-> BodyGet(body, "salary", NullInt),
                      equity |-> BodyGet(body, "equity", NullStr),
                      companyHandle |-> BodyGet(body, "companyHandle", NullStr)],
                     cs, js, nid), 201, TRUE)

\* POST /jobs with req.body = body; a key the body lacks is undefined and
\* is stored as NULL
PostJobs(body, cs, js, nid) ==
    IF ~ValidJobNew(body) THEN Invalid(cs, js, nid)
    ELSE Passed(JobCreate([title |-> BodyGet(body, "title", NullStr),
                           salary |-> BodyGet(body, "salary", NullInt),
                           equity |-> BodyGet(body, "equity", NullStr),
                           companyHandle |-> BodyGet(body, "companyHandle", NullStr)],
                          cs, js, nid), 201, TRUE)

\* PATCH /jobs/:id with req.params.id = id and req.body = body
PatchJob(id, body, cs, js, nid) ==
    IF ~ValidJobUpdate(body) THEN Invalid(cs, js, nid)
    ELSE Passed(JobUpdate(id, body, cs, js, nid), 200, TRUE)

\* the bodies of the requests: each key absent or with one of its values
Entry(key, type, values) == {<<>>} \cup {<<[k |-> key, t |-> type, v |-> v]>> : v \in values}

PostBodies ==
    {a \o b \o c \o d \o e :
        a \in Entry("title", "string", {<<"t", "1">>, <<>>})
                 \cup Entry("title", "integer", {<<"5">>}),
        b \in Entry("companyHandle", "string", {"c1", NoSuchHandle})
                 \cup Entry("companyHandle", "integer", {"1"}),
        c \in Entry("salary", "integer", {100, 0 - 5})
                 \cup Entry("salary", "string", {100}),
        d \in Entry("equity", "string", {"0.1", "abc"}),
        e \in Entry("id", "integer", {2})}

PatchBodies ==
    {a \o b \o c \o d \o e :
        a \in Entry("title", "string", {<<"T", "2">>, <<>>}),
        b \in Entry("salary", "integer", {200, 0 - 5}),
        c \in Entry("equity", "string", {"0.5", "abc"}),
        d \in Entry("id", "integer", {2}),
        e \in Entry("companyHandle", "string", {"c2"})}

\* the first id the store hands out in InitRoutes
FirstNewId == 3

InitRoutes ==
    /\ companies \in SUBSET {c \in FixtureCompanies : c.handle \in Handles}
    /\ jobs \in SUBSET {j \in FixtureJobs : j.id < FirstNewId}
    /\ \A j \in jobs : \E c \in companies : c.handle = j.company_handle
    /\ nextId = FirstNewId
    /\ onDelete = "NO ACTION"
    /\ last = NoCall
    /\ inflight = <<>>

RouteReturned(op, id, data, r) ==
    /\ last' = [op |-> op, id |-> id, data |-> data,
                aux |-> [called |-> r.called], outcome |-> r.outcome,
                nq |-> r.nq, res |-> r.res]
    /\ companies' = r.companies
    /\ jobs' = r.jobs
    /\ nextId' = r.nextId
    /\ UNCHANGED <<onDelete, inflight>>

DoPostJobs ==
    /\ last.op = "none"
    /\ nextId < FirstNewId + MaxJobId
    /\ \E body \in PostBodies :
        RouteReturned("POST /jobs", 0, body,
                      PostJobs(body, companies, jobs, nextId))

DoPatchJob ==
    /\ last.op = "none"
    /\ \E id \in 1..FirstNewId, body \in PatchBodies :
        RouteReturned("PATCH /jobs/:id", id, body,
                      PatchJob(id, body, companies, jobs, nextId))

NextRoutes ==
    \/ DoPostJobs
    \/ DoGetJobs
    \/ DoPatchJob
    \/ Return

SpecRoutes == InitRoutes /\ [][NextRoutes]_vars

\* the payload of the request that returned fails its schema
FailsValidation ==
    CASE last'.op = "POST /jobs" -> ~ValidJobNew(last'.data)
      [] last'.op = "PATCH /jobs/:id" -> ~ValidJobUpdate(last'.data)
      [] last'.op = "GET /jobs" -> ~ValidJobSearch(QueryFilters(last'.data))
      [] OTHER -> FALSE

\* C10: in POST /jobs, GET /jobs and PATCH /jobs/:id the payload is
\* validated before the Job operation: a request whose payload fails its
\* schema calls no Job operation, issues no storage call, leaves the store
\* unchanged and passes on a bad-request error with status 400; a request
\* whose payload passes does call the Job operation.
C10_ValidatedFirst ==
    [][(last.op = "none" /\ last'.op # "none") =>
          IF FailsValidation
          THEN /\ ~last'.aux.called
               /\ last'.nq = 0
               /\ StoreUnchanged
               /\ last'.outcome = "BadRequest"
               /\ last'.res.status = 400
          ELSE last'.aux.called]_vars

\* C10 witness: a POST whose body names an existing company and has a title
\* but carries a key the schema does not know was answered with 400
C10_Witness ==
    /\ last.op = "POST /jobs"
    /\ Len(last.data) = 3
    /\ BodyHas(last.data, "id")
    /\ BodyHas(last.data, "companyHandle")
    /\ BodyHas(last.data, "title")
    /\ ValidJobNew(SubSeq(last.data, 1, 2))
    /\ BodyGet(last.data, "companyHandle", NullStr) = "c1"
    /\ \E c \in companies : c.handle = "c1"
    /\ last.res.status = 400

(***************************************************************************)
(* Round trips.  The calls are made one after the other as in Spec, and    *)
(* inflight keeps the record one successful create was called with, its    *)
(* identifier, and whether its row was updated or removed since (kind      *)
(* "dropped") or, for a job, whether its company was removed since.        *)
(***************************************************************************)
NoWatch == [kind |-> "none", x |-> <<>>, ownerRemoved |-> FALSE]
Dropped == [kind |-> "dropped", x |-> <<>>, ownerRemoved |-> FALSE]

Watches(kind, id) ==
    /\ inflight.kind = kind
    /\ inflight.id = id

\* the records Job.create is called with in the round trips
RoundJobs ==
    {[title |-> <<"t", "1">>, salary |-> 100, equity |-> ".5",
      companyHandle |-> "c1"],
     [title |-> <<"T", "2">>, salary |-> NullInt, equity |-> NullStr,
      companyHandle |-> "c2"]}

InitRound ==
    /\ companies = {}
    /\ jobs = {}
    /\ nextId = 1
    /\ onDelete \in {"CASCADE", "NO ACTION"}
    /\ last = NoCall
    /\ inflight = NoWatch

RoundReturned(op, id, data, aux, r, watch) ==
    /\ last' = [op |-> op, id |-> id, data |-> data, aux |-> aux,
                outcome |-> r.outcome, nq |-> r.nq, res |-> r.res]
    /\ companies' = r.companies
    /\ jobs' = r.jobs
    /\ nextId' = r.nextId
    /\ inflight' = watch
    /\ UNCHANGED onDelete

\* the create that returned r for x is the one to remember, or not
Remember(kind, id, x, r) ==
    {inflight} \cup
    IF r.outcome = "ok" /\ inflight.kind = "none"
    THEN {[kind |-> kind, id |-> id, x |-> x, ownerRemoved |-> FALSE]}
    ELSE {}

\* the call that returned r changed or removed the row id of kind
Touched(kind, id, r) ==
    IF r.outcome = "ok" /\ Watches(kind, id) THEN Dropped ELSE inflight

RoundCompanyCreate ==
    /\ last.op = "none"
    /\ \E c \in NewCompanies :
        LET r == CompanyCreate(c, companies, jobs, nextId)
        IN  \E w \in Remember("company", c.handle, c, r) :
                RoundReturned("Company.create", c.handle, <<>>, c, r, w)

RoundJobCreate ==
    /\ last.op = "none"
    /\ nextId <= MaxJobId
    /\ \E j \in RoundJobs :
        LET r == JobCreate(j, companies, jobs, nextId)
        IN  \E w \in Remember("job", nextId, j, r) :
                RoundReturned("Job.create", nextId, <<>>, j, r, w)

RoundCompanyGet ==
    /\ last.op = "none"
    /\ \E h \in CallHandles :
        RoundReturned("Company.get", h, <<>>, <<>>,
                      CompanyGet(h, companies, jobs, nextId), inflight)

RoundJobGet ==
    /\ last.op = "none"
    /\ \E id \in CallIds :
        RoundReturned("Job.get", id, <<>>, <<>>,
                      JobGet(id, companies, jobs, nextId), inflight)

RoundCompanyUpdate ==
    /\ last.op = "none"
    /\ \E h \in CallHandles, data \in Objects(CompanyEntries, MaxFields) :
        LET r == CompanyUpdate(h, data, companies, jobs, nextId)
        IN  RoundReturned("Company.update", h, data, <<>>, r,
                          Touched("company", h, r))

RoundJobUpdate ==
    /\ last.op = "none"
    /\ \E id \in CallIds, data \in Objects(JobEntries, MaxFields) :
        LET r == JobUpdate(id, data, companies, jobs, nextId)
        IN  RoundReturned("Job.update", id, data, <<>>, r,
                          Touched("job", id, r))

RoundCompanyRemove ==
    /\ last.op = "none"
    /\ \E h \in CallHandles :
        LET r == CompanyRemove(h, companies, jobs, nextId, onDelete)
        IN  RoundReturned("Company.remove", h, <<>>, <<>>, r,
                IF /\ r.outcome = "ok"
                   /\ inflight.kind = "job"
                   /\ inflight.x.companyHandle = h
                THEN [inflight EXCEPT !.ownerRemoved = TRUE]
                ELSE Touched("company", h, r))

RoundJobRemove ==
    /\ last.op = "none"
    /\ \E id \in CallIds :
        LET r == JobRemove(id, companies, jobs, nextId)
        IN  RoundReturned("Job.remove", id, <<>>, <<>>, r,
                          Touched("job", id, r))

NextRound ==
    \/ RoundCompanyCreate
    \/ RoundJobCreate
    \/ RoundCompanyGet
    \/ RoundJobGet
    \/ RoundCompanyUpdate
    \/ RoundJobUpdate
    \/ RoundCompanyRemove
    \/ RoundJobRemove
    \/ Return

SpecRound == InitRound /\ [][NextRound]_vars

\* the get that returned is of the remembered row
GotWatched(kind) ==
    /\ last.op = IF kind = "job" THEN "Job.get" ELSE "Company.get"
    /\ inflight.kind = kind
    /\ last.id = inflight.id

\* what Company.get answers for the remembered company x: its fields and
\* the jobs the store holds for it, by id
CompanyRoundTrip(x) ==
    /\ last.outcome = "ok"
    /\ last.res.handle = x.handle
    /\ last.res.name = x.name
    /\ last.res.description = x.description
    /\ last.res.numEmployees = x.numEmployees
    /\ last.res.logoUrl = x.logoUrl
    /\ Len(last.res.jobs) = Cardinality({j \in jobs : j.company_handle = x.handle})
    /\ \A i \in 1..Len(last.res.jobs) :
         /\ DOMAIN last.res.jobs[i] = {"id", "title", "salary", "equity"}
         /\ \E j \in jobs :
              /\ j.company_handle = x.handle
              /\ j.id = last.res.jobs[i].id
              /\ j.title = last.res.jobs[i].title
              /\ j.salary = last.res.jobs[i].salary
              /\ j.equity = last.res.jobs[i].equity
         /\ \A k \in 1..(i - 1) : last.res.jobs[k].id < last.res.jobs[i].id

\* what Job.get answers for the remembered job x, but for its equity: the
\* generated id, the fields, the company record, and no companyHandle
JobRoundTrip(x) ==
    /\ last.outcome = "ok"
    /\ last.res.id = inflight.id
    /\ last.res.title = x.title
    /\ last.res.salary = x.salary
    /\ "companyHandle" \notin DOMAIN last.res
    /\ Len(last.res.company) = 1
    /\ last.res.company[1].handle = x.companyHandle
    /\ \E c \in companies : last.res.company[1] = CompanyJs(c)

UpdatedFrom(old, row, data, jsToSql) ==
    /\ DOMAIN row = DOMAIN old
    /\ \A c \in DOMAIN old :
         IF \E i \in 1..Len(data) : ColumnOf(jsToSql, data[i].k) = c
         THEN \E i \in 1..Len(data) :
                 ColumnOf(jsToSql, data[i].k) = c /\ row[c] = data[i].v
         ELSE row[c] = old[c]

HandlesOf(cs) == {c.handle : c \in cs}
IdsOf(js) == {j.id : j \in js}

\* a call returns in this step
Returns == last.op = "none" /\ last'.op # "none"

\* C13 as stated: only create makes an identifier exist and only remove
\* makes it exist no more (get and update never change the identifiers
\* that exist); a successful remove(id) deletes the row id and no other
\* row; get, update (with data that names columns) and remove of an
\* identifier that does not exist fail with NotFound.
C13_AsStated ==
    [][Returns =>
        /\ last'.op \notin {"Company.create", "Job.create"}
             => (/\ HandlesOf(companies') \subseteq HandlesOf(companies)
                 /\ IdsOf(jobs') \subseteq IdsOf(jobs))
        /\ last'.op \notin {"Company.remove", "Job.remove"}
             => (/\ HandlesOf(companies) \subseteq HandlesOf(companies')
                 /\ IdsOf(jobs) \subseteq IdsOf(jobs'))
        /\ (last'.op = "Company.remove" /\ last'.outcome = "ok")
             => (/\ companies' = {c \in companies : c.handle # last'.id}
                 /\ jobs' = jobs)
        /\ (last'.op = "Job.remove" /\ last'.outcome = "ok")
             => (/\ jobs' = {j \in jobs : j.id # last'.id}
                 /\ companies' = companies)
        /\ (/\ NoSuchRow
            /\ last'.op = "Company.update"
                 => (/\ last'.data # <<>>
                     /\ NamesColumns(last'.data, CompanyJsToSql, CompanyColumns))
            /\ last'.op = "Job.update"
                 => (/\ last'.data # <<>>
                     /\ NamesColumns(last'.data, JobJsToSql, JobColumns)))
             => last'.outcome = "NotFound"]_vars

\* C13, what the code does: get changes nothing; an update changes the
\* identifiers that exist only when its data names the key column, and then
\* it replaces the given identifier by the new one; a successful Job.remove
\* deletes the row id only, a successful Company.remove the row of the
\* handle and the jobs of that company (none unless deletes cascade).
C13_Lifecycle ==
    [][Returns =>
        /\ last'.op \in {"Company.get", "Job.get"} => StoreUnchanged
        /\ last'.op = "Company.update"
             => (/\ IdsOf(jobs') = IdsOf(jobs)
                 /\ \/ HandlesOf(companies') = HandlesOf(companies)
                    \/ /\ \E i \in 1..Len(last'.data) : last'.data[i].k = "handle"
                       /\ \E new \in HandlesOf(companies') \ HandlesOf(companies) :
                            HandlesOf(companies') =
                              (HandlesOf(companies) \ {last'.id}) \cup {new})
        /\ last'.op = "Job.update"
             => (/\ HandlesOf(companies') = HandlesOf(companies)
                 /\ \/ IdsOf(jobs') = IdsOf(jobs)
                    \/ /\ \E i \in 1..Len(last'.data) : last'.data[i].k = "id"
                       /\ \E new \in IdsOf(jobs') \ IdsOf(jobs) :
                            IdsOf(jobs') = (IdsOf(jobs) \ {last'.id}) \cup {new})
        /\ (last'.op = "Company.remove" /\ last'.outcome = "ok")
             => (/\ companies' = {c \in companies : c.handle # last'.id}
                 /\ jobs' = {j \in jobs : j.company_handle # last'.id}
                 /\ onDelete = "NO ACTION" => jobs' = jobs)
        /\ (last'.op = "Job.remove" /\ last'.outcome = "ok")
             => (/\ jobs' = {j \in jobs : j.id # last'.id}
                 /\ companies' = companies)]_vars

(***************************************************************************)
(* The statements of the listings, in SpecFind.                            *)
(***************************************************************************)
\* the listing that returned, if it got past its checks
Listed(op) == last.op = op /\ last.outcome # "BadRequest"

\* the text is the fixed select, a WHERE clause exactly when there are
\* fragments, and ORDER BY key last
SelectWhereOrderBy(mainQuery, key, n) ==
    /\ mainQuery[1].t = "text"
    /\ (n > 0) <=> \E i \in 1..Len(mainQuery) :
                      mainQuery[i].t = "text" /\ mainQuery[i].v = "WHERE"
    /\ \A i \in 1..n : \E k \in 1..Len(mainQuery) :
          mainQuery[k].t = "frag" /\ mainQuery[k].v = i
    /\ mainQuery[Len(mainQuery)].t = "text"
    /\ mainQuery[Len(mainQuery)].v = "ORDER BY " \o key

\* ORDER BY is set apart from what precedes it, as is every other piece
Separate(mainQuery) ==
    /\ mainQuery[Len(mainQuery) - 1].t = "space"
    /\ ~RunTogether(mainQuery)

\* the list returned is in the order of key
Ordered(res, key) ==
    \A i, j \in 1..Len(res) : i < j => TextLE(res[i][key], res[j][key])

\* C14 as stated: for every combination of criteria Company.findAll and
\* Job.findAll issue a well-formed statement: the fixed select, the
\* optional WHERE clause and a separate ORDER BY clause on name (title),
\* ORDER BY being a token of its own and not run together with the last
\* predicate or its placeholder; the result is the ordered list, an empty
\* list when nothing matches, and not an error.
C14_AsStated ==
    /\ Listed("Company.findAll") =>
         /\ SelectWhereOrderBy(last.aux.mainQuery, "name", Len(last.aux.whereStatements))
         /\ Separate(last.aux.mainQuery)
         /\ last.outcome = "ok"
         /\ Ordered(last.res, "name")
    /\ Listed("Job.findAll") =>
         /\ SelectWhereOrderBy(last.aux.mainQuery, "title", Len(last.aux.whereStatements))
         /\ Separate(last.aux.mainQuery)
         /\ last.outcome = "ok"
         /\ Ordered(last.res, "title")

\* C14, what the code does: Job.findAll is as stated.  Company.findAll is
\* as stated when it builds no fragment; when it builds one, ORDER BY
\* follows the placeholder of the last fragment with no white space, and
\* the call returns the ordered list or fails with the store's syntax
\* error, as the store reads the text.
C14_Statements ==
    /\ Listed("Job.findAll") =>
         /\ SelectWhereOrderBy(last.aux.mainQuery, "title", Len(last.aux.whereStatements))
         /\ Separate(last.aux.mainQuery)
         /\ last.outcome = "ok"
         /\ Ordered(last.res, "title")
    /\ Listed("Company.findAll") =>
         /\ SelectWhereOrderBy(last.aux.mainQuery, "name", Len(last.aux.whereStatements))
         /\ IF last.aux.whereStatements = <<>>
            THEN Separate(last.aux.mainQuery) /\ last.outcome = "ok"
            ELSE /\ last.aux.mainQuery[Len(last.aux.mainQuery) - 1].t = "frag"
                 /\ last.outcome \in {"ok", "DbError"}
                 /\ last.outcome = "DbError" => last.res = "syntax_error"
         /\ last.outcome = "ok" => Ordered(last.res, "name")

(***************************************************************************)
(* Two concurrent Company.create calls with one handle.  inflight[p] is    *)
(* the call of p: where it stands (before its lookup, before its insert,   *)
(* done), its argument and, when done, its outcome and result.             *)
(***************************************************************************)
RaceCompanies ==
    {[handle |-> h, name |-> n, description |-> "Desc",
      numEmployees |-> e, logoUrl |-> NullStr] :
        h \in Handles, n \in CompanyNames, e \in {1, NullInt}}

Call(pc, c, outcome, res) == [pc |-> pc, c |-> c, outcome |-> outcome, res |-> res]

InitRace ==
    /\ companies = {}
    /\ jobs = {}
    /\ nextId = 1
    /\ onDelete = "NO ACTION"
    /\ last = NoCall
    /\ \E a, b \in RaceCompanies :
        /\ a.handle = b.handle
        /\ inflight = [p \in Procs |->
                          Call("lookup", IF p = "p1" THEN a ELSE b, "none", <<>>)]

\* Company.create up to the result of its first await
RaceLookup(p) ==
    /\ inflight[p].pc = "lookup"
    /\ LET c == inflight[p].c
           duplicateCheck == CompanyCreateLookup(c, companies, jobs, nextId)
       IN  inflight' = [inflight EXCEPT ![p] =
                IF IsDuplicate(duplicateCheck)
                THEN Call("done", c, "BadRequest", "Duplicate company")
                ELSE Call("insert", c, "none", <<>>)]
    /\ UNCHANGED <<companies, jobs, nextId, onDelete, last>>

\* Company.create from its first await to its end
RaceInsert(p) ==
    /\ inflight[p].pc = "insert"
    /\ LET c == inflight[p].c
           r == CompanyCreateInsert(c, companies, jobs, nextId)
       IN  /\ inflight' = [inflight EXCEPT ![p] = Call("done", c, r.outcome, r.res)]
           /\ companies' = r.companies
           /\ jobs' = r.jobs
           /\ nextId' = r.nextId
    /\ UNCHANGED <<onDelete, last>>

NextRace ==
    \/ \E p \in Procs : RaceLookup(p)
    \/ \E p \in Procs : RaceInsert(p)

SpecRace == InitRace /\ [][NextRace]_vars

\* both calls have returned, p with the record it created
CreatedBy(p) ==
    /\ \A q \in Procs : inflight[q].pc = "done"
    /\ inflight[p].outcome = "ok"
    /\ inflight[p].res.handle = inflight[p].c.handle
    /\ inflight[p].res.name = inflight[p].c.name
    /\ inflight[p].res.numEmployees = inflight[p].c.numEmployees

\* C15 as stated: in every interleaving of the two calls exactly one
\* returns the created record and the other fails with BadRequest, and the
\* two never both pass the duplicate lookup.
C15_AsStated ==
    /\ ~(\A p \in Procs : inflight[p].pc = "insert")
    /\ (\A p \in Procs : inflight[p].pc = "done") =>
         \E p \in Procs :
            /\ CreatedBy(p)
            /\ \A q \in Procs \ {p} : inflight[q].outcome = "BadRequest"

\* C15 amended: exactly one call returns the created record, whose row is
\* the only one in the store.  A call passes the lookup exactly when the
\* handle is not in the store at that moment, so both pass when both look
\* before either inserts; the call that loses fails with BadRequest when
\* its lookup found the row, changing nothing, and with the store's
\* uniqueness error when it had passed the lookup.
C15_OneCreated ==
    [][/\ (\A p \in Procs : inflight'[p].pc = "done") =>
            \E p \in Procs :
               /\ inflight'[p].outcome = "ok"
               /\ inflight'[p].res.handle = inflight'[p].c.handle
               /\ inflight'[p].res.name = inflight'[p].c.name
               /\ inflight'[p].res.numEmployees = inflight'[p].c.numEmployees
               /\ \A c \in companies' :
                    c.handle = inflight'[p].c.handle /\ c.name = inflight'[p].c.name
               /\ companies' # {}
               /\ \A q \in Procs \ {p} :
                    \/ inflight'[q].outcome = "BadRequest"
                    \/ /\ inflight'[q].outcome = "DbError"
                       /\ inflight'[q].res = "unique_violation"
       /\ \A p \in Procs :
            /\ (inflight[p].pc = "lookup" /\ inflight'[p].pc = "insert")
                 => ~CompanyExists(inflight[p].c.handle)
            /\ (inflight[p].pc = "lookup" /\ inflight'[p].pc = "done")
                 => (/\ CompanyExists(inflight[p].c.handle)
                     /\ inflight'[p].outcome = "BadRequest"
                     /\ StoreUnchanged)
            /\ (inflight[p].pc = "insert" /\ inflight'[p].pc = "done")
                 => inflight'[p].outcome =
                      IF CompanyExists(inflight[p].c.handle)
                      THEN "DbError" ELSE "ok"]_vars

\* C15 witness: both calls passed the lookup, and the one that inserted
\* second, with another name, was refused by the store
C15_Witness ==
    /\ \A p \in Procs : inflight[p].pc = "done"
    /\ inflight["p1"].outcome = "ok"
    /\ inflight["p2"].outcome = "DbError"
    /\ inflight["p1"].c.name # inflight["p2"].c.name

(***************************************************************************)
(* Every operation of the two models, one call after the other: the calls  *)
(* of Spec and the two listings.                                           *)
(***************************************************************************)
CallsCompanyFindAll ==
    /\ last.op = "none"
    /\ \E filterOptions \in
           {f \in CompanyFilters : DOMAIN f \subseteq {"minEmployees", "maxEmployees"}} :
        \E r \in CompanyFindAll(filterOptions, companies, jobs, nextId) :
            last' = [op |-> "Company.findAll", id |-> 0, data |-> filterOptions,
                     aux |-> r.built, outcome |-> r.outcome, nq |-> r.nq,
                     res |-> r.res]
    /\ UNCHANGED <<companies, jobs, nextId, onDelete, inflight>>

CallsJobFindAll ==
    /\ last.op = "none"
    /\ \E filterOptions \in {f \in JobFilters : DOMAIN f \subseteq {"hasEquity"}} :
        \E r \in JobFindAll(filterOptions, companies, jobs, nextId) :
            last' = [op |-> "Job.findAll", id |-> 0, data |-> filterOptions,
                     aux |-> r.built, outcome |-> r.outcome, nq |-> r.nq,
                     res |-> r.res]
    /\ UNCHANGED <<companies, jobs, nextId, onDelete, inflight>>

NextCalls ==
    \/ Next
    \/ CallsCompanyFindAll
    \/ CallsJobFindAll

SpecCalls == Init /\ [][NextCalls]_vars

\* C16: every operation of Company and of Job issues at most two storage
\* calls, one after the other, and none after it has detected its failure:
\* Company.create one (the lookup) on a duplicate and two otherwise,
\* Company.get and Job.get one when the row is not found and two otherwise,
\* an update none when data is empty, a listing none when it rejects its
\* bounds, and every other call one.
C16_StorageCalls ==
    last.op # "none" =>
        /\ last.nq <= 2
        /\ last.op = "Company.create"
             => last.nq = IF last.outcome = "BadRequest" THEN 1 ELSE 2
        /\ last.op \in {"Company.get", "Job.get"}
             => (/\ last.outcome \in {"ok", "NotFound"}
                 /\ last.nq = IF last.outcome = "NotFound" THEN 1 ELSE 2)
        /\ last.op \in {"Company.update", "Job.update", "Company.findAll", "Job.findAll"}
             => last.nq = IF last.outcome = "BadRequest" THEN 0 ELSE 1
        /\ last.op \in {"Company.remove", "Job.remove", "Job.create"}
             => last.nq = 1

\* C16 witness: Company.get of a handle that is not in a store that holds
\* a company with a job stopped after its first query
C16_Witness ==
    /\ last.op = "Company.get"
    /\ last.outcome = "NotFound"
    /\ last.nq = 1
    /\ jobs # {}

(***************************************************************************)
(* The placeholders of the two UPDATE statements.                          *)
(***************************************************************************)
\* C17: in Company.update and Job.update with n >= 1 data fields the
\* statement has n+1 bind values, the n data values in the order of their
\* keys followed by the row identifier; the i-th SET fragment reads $i, the
\* WHERE clause reads $(n+1), which is above every SET position, and the
\* placeholders are exactly $1..$(n+1); the call reports not-found only if
\* no row had the identifier and succeeds only on a row that had it.
C17_IdentifierLast ==
    (/\ last'.op \in {"Company.update", "Job.update"}
     /\ last.op = "none"
     /\ Len(last'.data) >= 1)
    => LET n == Len(last'.data)
           q == last'.aux
           present == IF last'.op = "Company.update"
                      THEN \E r \in companies : r.handle = last'.id
                      ELSE \E j \in jobs : j.id = last'.id
       IN  /\ Len(q.params) = n + 1
           /\ q.wherePos = n + 1
           /\ Len(q.setCols) = n
           /\ \A i \in 1..n : q.setCols[i].pos = i /\ q.setCols[i].pos < q.wherePos
           /\ {q.setCols[i].pos : i \in 1..n} \cup {q.wherePos} = DOMAIN q.params
           /\ \A i \in 1..n : q.params[i] = last'.data[i].v
           /\ q.params[q.wherePos] = last'.id
           /\ last'.outcome = "NotFound" => ~present
           /\ last'.outcome = "ok" => present

C17_Placeholders == [][C17_IdentifierLast]_vars

\* C17 witness: a Company.update with two data fields has changed the
\* company with the handle it was given
C17_Witness ==
    /\ last.op = "Company.update"
    /\ Len(last.data) = 2
    /\ last.outcome = "ok"
    /\ \E r \in companies : r.handle = last.id

====
